---- MODULE Spec2Model ----
(***************************************************************************)
(* VoiceFusion: speech-to-speech translation.                              *)
(*                                                                         *)
(*   voice.py  - duplex orchestrator (two asyncio tasks), detect_language, *)
(*               translate_text, speak_text                                *)
(*   main.py   - detect_indian_language, translate_text_smart,             *)
(*               bidirectional_talk and its endless loop                   *)
(*   app.py    - Streamlit button handlers, cached load_translation_model  *)
(*                                                                         *)
(* Text is a sequence of Unicode code points.  External engines (Whisper,  *)
(* fastText, MarianMT, googletrans, gTTS) are nondeterministic choices     *)
(* over the outcomes they can produce, a raised exception included.        *)
(***************************************************************************)
EXTENDS Integers, Sequences, FiniteSets, TLC

VARIABLES
    \* ---- language identification (voice.py detect_language, main.py detect_indian_language)
    idText,          \* the text argument
    idHint,          \* whisper_lang argument of detect_language
    idClassifier,    \* what lang_model.predict yields for idText: a label or Raises
    idPc,            \* "input" | "done"
    idVoice,         \* value returned by voice.py detect_language
    idMain,          \* value returned by main.py detect_indian_language
    idPredictCalls,  \* number of lang_model.predict calls made by detect_language
    \* ---- voice.py: asyncio.run(main_dual()) and the two user_stream tasks
    inputs,          \* what is typed at the four input() prompts of main_dual
    mainPc,          \* main task: "setup" | "awaiting" (on gather) | "crashed"
    ready,           \* the event loop's queue of callbacks ready to run
    running,         \* the task whose step is executing, or NoTask
    gatherDone,      \* gather's outer future already has its exception
    pc,              \* per stream: position in user_stream
    speak_lang,      \* per stream: user_stream argument
    hear_lang,       \* per stream: user_stream argument
    text,            \* per stream: text of the current iteration
    detected_lang,   \* per stream: language reported by Whisper
    translated,      \* per stream: what translate_text did: Returns(..) or Raised
    trEngine,        \* per stream: what model.generate did this iteration
    tts,             \* per stream: the gTTS call of this iteration, if any
    failedAt,        \* per stream: the call whose exception ended the task
    src_lang,        \* translator_tokenizer.src_lang
    trCall,          \* per stream: (src, dest) passed to translate_text this iteration
    stages,          \* per stream: the pipeline stages entered in this iteration, in order
    sigints,         \* SIGINTs received by the process
    cancelReq,       \* the SIGINT handler of asyncio.run has cancelled the main task
    \* ---- app.py: Streamlit sessions sharing the st.cache_resource cache
    cache,           \* load_translation_model's cache: (src, dest) -> loaded capability
    loads,           \* per (src, dest): how many times the model was instantiated
    used,            \* per (src, dest): the capabilities translate_text ran generate on
    calls,           \* per (src, dest): completed load_translation_model calls
    runs,            \* button presses so far, all sessions
    lang_choice,     \* per session: the sidebar selectbox
    appPc,           \* per session: position in the pressed button's handler
    button,          \* per session: the button of the current script run
    appText,         \* per session: text
    appModel,        \* per session: (tokenizer, translator) in translate_text
    appTranslated,   \* per session: translated
    engineCalls,     \* per session: translator.generate calls of this run
    ttsCalls,        \* per session: gTTS calls of this run
    lookups,         \* per session: load_translation_model calls of this run
    chat_history,    \* per session: st.session_state.chat_history
    \* ---- main.py: while True: bidirectional_talk()
    mPc,             \* position in bidirectional_talk / translate_text_smart
    mText,           \* text
    mDetected,       \* detected_lang of translate_text_smart
    mDest,           \* dest_lang of translate_text_smart
    mTranslated,     \* what translator.translate did: Returns(..) or Raised
    mTts,            \* the gTTS call play_audio made in this iteration, if any
    mSttFirst,       \* what the first recognize_google call of the iteration did
    mSttCalls,       \* recognize_google calls of this iteration
    mTrCalls,        \* translator.translate calls of this iteration
    mTtsCalls        \* gTTS calls of this iteration

identVars == <<idText, idHint, idClassifier, idPc, idVoice, idMain, idPredictCalls>>

orchVars == <<inputs, mainPc, ready, running, gatherDone, pc, speak_lang, hear_lang,
              text, detected_lang, translated, trEngine, tts, failedAt, src_lang,
              trCall, stages, sigints, cancelReq>>

appVars == <<cache, loads, used, calls, runs, lang_choice, appPc, button, appText,
             appModel, appTranslated, engineCalls, ttsCalls, lookups, chat_history>>

mainVars == <<mPc, mText, mDetected, mDest, mTranslated, mTts, mSttFirst,
              mSttCalls, mTrCalls, mTtsCalls>>

vars == <<identVars, orchVars, appVars, mainVars>>

\* what each part of the program leaves alone
notIdent == <<orchVars, appVars, mainVars>>
notOrch  == <<identVars, appVars, mainVars>>
notApp   == <<identVars, orchVars, mainVars>>
notMain  == <<identVars, orchVars, appVars>>

(***************************************************************************)
(* Bounds                                                                  *)
(***************************************************************************)
MaxPieces == 3       \* a text is at most this many vocabulary pieces long
MaxRuns == 2         \* button presses explored in the Streamlit app

(***************************************************************************)
(* Python values                                                           *)
(***************************************************************************)
None   == "None"
Raises == "<raises>"
NoValue == [none |-> TRUE]          \* "nothing returned yet"

\* outcome of a call yielding a string: the string returned, or an exception
Returns(s) == [str |-> s]
Raised == [raises |-> TRUE]

\* A returned language code: detect_language and detect_indian_language return
\* a bare str, nothing else.
StrResult(code) == [lang |-> code]

SupportedLangs == {"en", "hi", "pa"}
FallbackLang == "en"

(***************************************************************************)
(* str helpers                                                             *)
(***************************************************************************)
\* str.isspace() code points (what str.strip() and str.split() treat as blank)
WhitespaceChars ==
    {9, 10, 11, 12, 13, 28, 29, 30, 31, 32, 133, 160, 5760} \cup (8192..8202)
        \cup {8232, 8233, 8239, 8287, 12288}

IsSpace(c) == c \in WhitespaceChars

\* str.lower() on one code point (ASCII letters; the Indic scripts are caseless)
LowerChar(c) == IF c >= 65 /\ c <= 90 THEN c + 32 ELSE c

\* text.lower()
Lower(s) == [i \in 1..Len(s) |-> LowerChar(s[i])]

\* text.strip()
RECURSIVE LStrip(_)
LStrip(s) == IF s = <<>> THEN <<>>
             ELSE IF IsSpace(Head(s)) THEN LStrip(Tail(s)) ELSE s

RECURSIVE RStrip(_)
RStrip(s) == IF s = <<>> THEN <<>>
             ELSE IF IsSpace(s[Len(s)]) THEN RStrip(SubSeq(s, 1, Len(s) - 1)) ELSE s

Strip(s) == RStrip(LStrip(s))

\* text.split(): the maximal runs of non-blank characters, in order
RECURSIVE SplitFrom(_, _, _)
SplitFrom(s, cur, acc) ==
    IF s = <<>>
    THEN IF cur = <<>> THEN acc ELSE Append(acc, cur)
    ELSE IF IsSpace(Head(s))
         THEN SplitFrom(Tail(s), <<>>, IF cur = <<>> THEN acc ELSE Append(acc, cur))
         ELSE SplitFrom(Tail(s), Append(cur, Head(s)), acc)

Split(s) == SplitFrom(s, <<>>, <<>>)

Range(s) == {s[i] : i \in 1..Len(s)}

(***************************************************************************)
(* main.py detect_indian_language                                          *)
(***************************************************************************)
DevanagariLo == 2304      \* U+0900
DevanagariHi == 2431      \* U+097F
GurmukhiLo   == 2560      \* U+0A00
GurmukhiHi   == 2687      \* U+0A7F

\* devanagari_pattern.search(text), gurmukhi_pattern.search(text)
devanagari_pattern(s) == \E i \in 1..Len(s) : s[i] >= DevanagariLo /\ s[i] <= DevanagariHi
gurmukhi_pattern(s)   == \E i \in 1..Len(s) : s[i] >= GurmukhiLo /\ s[i] <= GurmukhiHi

hindi_words ==
    { <<104,97,105>>,            \* hai
      <<104,111>>,               \* ho
      <<107,97>>,                \* ka
      <<107,105>>,               \* ki
      <<107,121,97>>,            \* kya
      <<116,117,109>>,           \* tum
      <<97,97,112>>,             \* aap
      <<109,101,114,97>>,        \* mera
      <<116,101,114,97>>,        \* tera
      <<110,97,104,105>>,        \* nahi
      <<116,104,101,101,107>>,   \* theek
      <<97,99,104,97>>,          \* acha
      <<115,97,98>> }            \* sab

punjabi_words ==
    { <<107,105>>,               \* ki
      <<116,117,115,105>>,       \* tusi
      <<116,117,104,97,100,97>>, \* tuhada
      <<109,101,114,97>>,        \* mera
      <<107,105,114,112,97>>,    \* kirpa
      <<104,111>>,               \* ho
      <<104,97,97,110>>,         \* haan
      <<110,97,104,105>>,        \* nahi
      <<107,105,100,100,97>>,    \* kidda
      <<107,97,105,109>>,        \* kaim
      <<107,105,100,97,97,110>>, \* kidaan
      <<107,105,109,105>> }      \* kimi

\* Hindi list consulted before the Punjabi list
detect_indian_language_HindiFirst(s) ==
    LET words == Range(Split(Lower(s)))
    IN  IF devanagari_pattern(s) THEN "hi"
        ELSE IF gurmukhi_pattern(s) THEN "pa"
        ELSE IF \E w \in hindi_words : w \in words THEN "hi"
        ELSE IF \E w \in punjabi_words : w \in words THEN "pa"
        ELSE "en"

detect_indian_language(s) ==
    LET words == Range(Split(Lower(s)))
    IN  IF devanagari_pattern(s) THEN "hi"
        ELSE IF gurmukhi_pattern(s) THEN "pa"
        ELSE IF \E w \in punjabi_words : w \in words THEN "pa"
        ELSE IF \E w \in hindi_words : w \in words THEN "hi"
        ELSE "en"

(***************************************************************************)
(* voice.py detect_language                                                *)
(***************************************************************************)
\* "अआइईउऊएऐओऔकखगघचछजझञटठडढणतथदधनपफबभमयरलवशषसह"
HindiChars ==
    {2309, 2310, 2311, 2312, 2313, 2314, 2319, 2320, 2323, 2324, 2325, 2326,
     2327, 2328, 2330, 2331, 2332, 2333, 2334, 2335, 2336, 2337, 2338, 2339,
     2340, 2341, 2342, 2343, 2344, 2346, 2347, 2348, 2349, 2350, 2351, 2352,
     2354, 2357, 2358, 2359, 2360, 2361}

\* "ਤਸਨਕਪਬਮਲਹਙਜਞਚਛਘਦਧਰਵ"
PunjabiChars ==
    {2596, 2616, 2600, 2581, 2602, 2604, 2606, 2610, 2617, 2585, 2588, 2590,
     2586, 2587, 2584, 2598, 2599, 2608, 2613}

\* ft_lang: the classifier's label, "en" when predict raises
ft_lang(classifier) == IF classifier = Raises THEN "en" ELSE classifier

\* ft_lang or whisper_lang with a classifier that always gives a label
HintOr_ClassifierFirst(whisper_lang, other) == other

\* whisper_lang or ft_lang: None and "" are falsy
HintOr(whisper_lang, other) ==
    IF whisper_lang = None \/ whisper_lang = "" THEN other ELSE whisper_lang

\* blank text is sent on to the classifier like any other text
detect_language_NoBlankCheck(s, whisper_lang, classifier) ==
    IF \E c \in HindiChars : c \in Range(s) THEN "hi"
    ELSE IF \E c \in PunjabiChars : c \in Range(s) THEN "pa"
    ELSE HintOr(whisper_lang, ft_lang(classifier))

detect_language(s, whisper_lang, classifier) ==
    IF Strip(s) = <<>> THEN "en"
    ELSE IF \E c \in HindiChars : c \in Range(s) THEN "hi"
    ELSE IF \E c \in PunjabiChars : c \in Range(s) THEN "pa"
    ELSE HintOr(whisper_lang, ft_lang(classifier))

\* lang_model.predict is reached only past the blank-text return
detect_language_predicts(s) == IF Strip(s) = <<>> THEN 0 ELSE 1

(***************************************************************************)
(* voice.py: translate_text, speak_text                                    *)
(***************************************************************************)
\* what model.generate + batch_decode can yield: a decoded string, or an exception
EngineOutputs == { <<>>, <<32>>, <<104,105>> }          \* "", " ", "hi"
EngineOutcomes == {Returns(o) : o \in EngineOutputs} \cup {Raised}

\* the failure is swallowed and the source text handed back
translate_text_CatchAll(s, engine) ==
    IF Strip(s) = <<>> THEN Returns(<<>>)
    ELSE IF engine = Raised THEN Returns(s)
    ELSE engine

\* translate_text(text, src, dest) given what the engine does: the returned
\* string, or Raised when the exception leaves the function
translate_text(s, engine) ==
    IF Strip(s) = <<>> THEN Returns(<<>>)
    ELSE engine

\* does translate_text reach the engine
translate_text_calls_engine(s) == Strip(s) # <<>>

\* tokenizer.src_lang = src if src in ["en", "hi", "pa"] else "en"
translate_src_lang(src) == IF src \in SupportedLangs THEN src ELSE "en"

\* gTTS(..., lang=lang if lang in ["en", "hi", "pa"] else "en")
speak_lang_arg(lang) == IF lang \in SupportedLangs THEN lang ELSE "en"

\* speak_text(text, lang): the gTTS call made, if any; an exception of gTTS or
\* play is caught inside speak_text
TtsOutcomes == {"played", "error caught"}

\* the try/except is missing: the exception leaves speak_text
speak_text_NoCatch(s, lang, outcome) ==
    IF Strip(s) = <<>> THEN NoValue
    ELSE IF outcome = "error caught" THEN Raised
    ELSE [text |-> s, lang |-> speak_lang_arg(lang), outcome |-> outcome]

speak_text(s, lang, outcome) ==
    IF Strip(s) = <<>> THEN NoValue
    ELSE [text |-> s, lang |-> speak_lang_arg(lang), outcome |-> outcome]

(***************************************************************************)
(* voice.py: main_dual and user_stream under asyncio.run                   *)
(***************************************************************************)
Streams == {"A", "B"}
NoTask == "none"

\* name of gather's _done_callback handle for the task of stream d
DoneCallback(d) == IF d = "A" THEN "doneA" ELSE "doneB"

\* language codes as typed: "", " HI", "fr"
TypedSpeak == { <<>>, <<32,72,73>>, <<102,114>> }
TypedHear  == { <<>>, <<32,72,73>>, <<102,114>> }

\* a typed, normalised code as a language code
CodeOf(s) ==
    CASE s = <<101,110>> -> "en"
      [] s = <<104,105>> -> "hi"
      [] s = <<112,97>>  -> "pa"
      [] s = <<102,114>> -> "fr"
      [] OTHER -> "??"

\* input(...).strip().lower() or default
Typed(s, default) ==
    LET t == Lower(Strip(s)) IN IF t = <<>> THEN default ELSE CodeOf(t)

a_speak == Typed(inputs.a_speak, "en")
a_hear  == Typed(inputs.a_hear, "pa")
b_speak == Typed(inputs.b_speak, "pa")
b_hear  == Typed(inputs.b_hear, "en")

\* result["text"] and result["language"] of whisper_model.transcribe
RawTranscripts == { <<>>, <<32>>, <<32,111,107>> }       \* "", " ", " ok"
WhisperLangs == {"en", "ur"}

\* both streams get their own languages: A hears a_hear, B hears b_hear
stream_langs_Uncrossed(d) ==
    IF d = "A" THEN [speak |-> a_speak, hear |-> a_hear]
    ELSE [speak |-> b_speak, hear |-> b_hear]

\* user_stream("User A", speak_lang=a_speak, hear_lang=b_hear),
\* user_stream("User B", speak_lang=b_speak, hear_lang=a_hear)
stream_langs(d) ==
    IF d = "A" THEN [speak |-> a_speak, hear |-> b_hear]
    ELSE [speak |-> b_speak, hear |-> a_hear]

OrchInit ==
    /\ inputs \in [a_speak : TypedSpeak, a_hear : TypedHear,
                   b_speak : TypedSpeak, b_hear : TypedHear]
    /\ mainPc = "setup"
    /\ ready = <<"main">>
    /\ running = NoTask
    /\ gatherDone = FALSE
    /\ pc = [d \in Streams |-> "created"]
    /\ speak_lang = [d \in Streams |-> None]
    /\ hear_lang = [d \in Streams |-> None]
    /\ text = [d \in Streams |-> <<>>]
    /\ detected_lang = [d \in Streams |-> None]
    /\ translated = [d \in Streams |-> NoValue]
    /\ trEngine = [d \in Streams |-> NoValue]
    /\ tts = [d \in Streams |-> NoValue]
    /\ failedAt = [d \in Streams |-> None]
    /\ src_lang = None
    /\ trCall = [d \in Streams |-> NoValue]
    /\ stages = [d \in Streams |-> <<>>]
    /\ sigints = 0
    /\ cancelReq = FALSE

\* the session at rest, for the specifications that do not exercise it
OrchIdle ==
    /\ inputs = [a_speak |-> <<>>, a_hear |-> <<>>, b_speak |-> <<>>, b_hear |-> <<>>]
    /\ mainPc = "crashed"
    /\ ready = <<>>
    /\ running = NoTask
    /\ gatherDone = FALSE
    /\ pc = [d \in Streams |-> "created"]
    /\ speak_lang = [d \in Streams |-> None]
    /\ hear_lang = [d \in Streams |-> None]
    /\ text = [d \in Streams |-> <<>>]
    /\ detected_lang = [d \in Streams |-> None]
    /\ translated = [d \in Streams |-> NoValue]
    /\ trEngine = [d \in Streams |-> NoValue]
    /\ tts = [d \in Streams |-> NoValue]
    /\ failedAt = [d \in Streams |-> None]
    /\ src_lang = None
    /\ trCall = [d \in Streams |-> NoValue]
    /\ stages = [d \in Streams |-> <<>>]
    /\ sigints = 0
    /\ cancelReq = FALSE

\* main_dual up to "await asyncio.gather(...)": the four prompts are answered,
\* gather wraps the two coroutines in tasks (their first steps are queued in
\* argument order) and the main task suspends on gather's future.
MainDualSetup ==
    /\ running = NoTask /\ ready # <<>> /\ Head(ready) = "main"
    /\ mainPc = "setup"
    /\ speak_lang' = [d \in Streams |-> stream_langs(d).speak]
    /\ hear_lang' = [d \in Streams |-> stream_langs(d).hear]
    /\ ready' = Tail(ready) \o <<"A", "B">>
    /\ mainPc' = "awaiting"
    /\ UNCHANGED <<inputs, running, gatherDone, pc, text, detected_lang, translated,
                   trEngine, tts, failedAt, src_lang, trCall, stages, sigints, cancelReq>>
    /\ UNCHANGED notOrch

\* the event loop runs the first step of task d: user_stream prints its
\* banner and enters "while True"
StartStream(d) ==
    /\ running = NoTask /\ ready # <<>> /\ Head(ready) = d
    /\ pc[d] = "created"
    /\ ~cancelReq
    /\ ready' = Tail(ready)
    /\ running' = d
    /\ pc' = [pc EXCEPT ![d] = "record"]
    /\ UNCHANGED <<inputs, mainPc, gatherDone, speak_lang, hear_lang, text,
                   detected_lang, translated, trEngine, tts, failedAt, src_lang,
                   trCall, stages, sigints, cancelReq>>
    /\ UNCHANGED notOrch

\* the first step of a task whose cancellation was requested before it ever
\* ran: CancelledError is thrown into the coroutine before its first
\* statement, the task is done (cancelled) and gather's callback is queued
CancelStream(d) ==
    /\ running = NoTask /\ ready # <<>> /\ Head(ready) = d
    /\ pc[d] = "created"
    /\ cancelReq
    /\ ready' = Append(Tail(ready), DoneCallback(d))
    /\ pc' = [pc EXCEPT ![d] = "cancelled"]
    /\ UNCHANGED <<inputs, mainPc, running, gatherDone, speak_lang, hear_lang, text,
                   detected_lang, translated, trEngine, tts, failedAt, src_lang,
                   trCall, stages, sigints, cancelReq>>
    /\ UNCHANGED notOrch

\* an exception leaves user_stream: the task is done with that exception and
\* gather's callback for it is queued
StreamFails(d, at) ==
    /\ pc' = [pc EXCEPT ![d] = "failed"]
    /\ failedAt' = [failedAt EXCEPT ![d] = at]
    /\ running' = NoTask
    /\ ready' = Append(ready, DoneCallback(d))

\* audio = record_chunk(duration=4): blocks in sd.wait() without suspending
\* the task; a new iteration starts
Record(d) ==
    /\ running = d /\ pc[d] = "record"
    /\ text' = [text EXCEPT ![d] = <<>>]
    /\ detected_lang' = [detected_lang EXCEPT ![d] = None]
    /\ translated' = [translated EXCEPT ![d] = NoValue]
    /\ trEngine' = [trEngine EXCEPT ![d] = NoValue]
    /\ tts' = [tts EXCEPT ![d] = NoValue]
    /\ trCall' = [trCall EXCEPT ![d] = NoValue]
    /\ stages' = [stages EXCEPT ![d] = <<"capture">>]
    /\ \/ /\ pc' = [pc EXCEPT ![d] = "transcribe"]
          /\ UNCHANGED <<running, ready, failedAt>>
       \/ StreamFails(d, "record")
    /\ UNCHANGED <<inputs, mainPc, gatherDone, speak_lang, hear_lang, src_lang,
                   sigints, cancelReq>>
    /\ UNCHANGED notOrch

\* text, detected_lang = await transcribe_audio(audio); if not text: continue.
\* transcribe_audio (remove_silence, then whisper_model.transcribe) has no
\* suspension point of its own: awaiting it runs it to completion inside the
\* same task step.
Transcribe(d) ==
    /\ running = d /\ pc[d] = "transcribe"
    /\ stages' = [stages EXCEPT ![d] = stages[d] \o <<"segment", "transcribe">>]
    /\ \/ \E raw \in RawTranscripts, lang \in WhisperLangs :
            /\ text' = [text EXCEPT ![d] = Strip(raw)]
            /\ detected_lang' = [detected_lang EXCEPT ![d] = lang]
            /\ pc' = [pc EXCEPT ![d] = IF Strip(raw) = <<>> THEN "record" ELSE "translate"]
            /\ UNCHANGED <<running, ready, failedAt>>
       \/ /\ StreamFails(d, "transcribe")
          /\ UNCHANGED <<text, detected_lang>>
    /\ UNCHANGED <<inputs, mainPc, gatherDone, speak_lang, hear_lang, translated,
                   trEngine, tts, src_lang, trCall, sigints, cancelReq>>
    /\ UNCHANGED notOrch

\* translated = translate_text(text, speak_lang, hear_lang)
Translate(d) ==
    /\ running = d /\ pc[d] = "translate"
    /\ trCall' = [trCall EXCEPT ![d] = [src |-> speak_lang[d], dest |-> hear_lang[d]]]
    /\ stages' = [stages EXCEPT ![d] = Append(stages[d], "translate")]
    /\ \E engine \in EngineOutcomes :
        LET called == translate_text_calls_engine(text[d])
            result == translate_text(text[d], engine)
        IN  /\ trEngine' = [trEngine EXCEPT ![d] = IF called THEN engine ELSE NoValue]
            /\ src_lang' = IF called THEN translate_src_lang(speak_lang[d]) ELSE src_lang
            /\ translated' = [translated EXCEPT ![d] = result]
            /\ IF result = Raised
               THEN StreamFails(d, "translate")
               ELSE /\ pc' = [pc EXCEPT ![d] = "speak"]
                    /\ UNCHANGED <<running, ready, failedAt>>
    /\ UNCHANGED <<inputs, mainPc, gatherDone, speak_lang, hear_lang, text,
                   detected_lang, tts, sigints, cancelReq>>
    /\ UNCHANGED notOrch

\* await speak_text(translated, hear_lang): no suspension point either; the
\* loop goes back to record_chunk
Speak(d) ==
    /\ running = d /\ pc[d] = "speak"
    /\ \E outcome \in TtsOutcomes :
        LET spoken == speak_text(translated[d].str, hear_lang[d], outcome)
        IN  /\ tts' = [tts EXCEPT ![d] = spoken]
            /\ stages' = [stages EXCEPT ![d] =
                    IF spoken = NoValue THEN stages[d] ELSE Append(stages[d], "synthesize")]
            /\ IF spoken = Raised
               THEN StreamFails(d, "speak")
               ELSE /\ pc' = [pc EXCEPT ![d] = "record"]
                    /\ UNCHANGED <<running, ready, failedAt>>
    /\ UNCHANGED <<inputs, mainPc, gatherDone, speak_lang, hear_lang, text,
                   detected_lang, translated, trEngine, src_lang, trCall, sigints,
                   cancelReq>>
    /\ UNCHANGED notOrch

\* gather's _done_callback for a finished child: the first exception or
\* cancellation becomes the outer future's exception, which queues the
\* wake-up of the main task
GatherCallback(d) ==
    /\ running = NoTask /\ ready # <<>> /\ Head(ready) = DoneCallback(d)
    /\ gatherDone' = TRUE
    /\ ready' = IF gatherDone THEN Tail(ready) ELSE Append(Tail(ready), "main")
    /\ UNCHANGED <<inputs, mainPc, running, pc, speak_lang, hear_lang, text,
                   detected_lang, translated, trEngine, tts, failedAt, src_lang,
                   trCall, stages, sigints, cancelReq>>
    /\ UNCHANGED notOrch

\* the main task resumes with gather's exception: main_dual raises and
\* asyncio.run cancels the tasks still pending.  A child's own exception
\* (always the first one queued when a child failed) ends the process with
\* a traceback; the CancelledError of an interrupted session is turned into
\* KeyboardInterrupt, which __main__ catches ("Session Ended.").
MainRaises ==
    /\ running = NoTask /\ ready # <<>> /\ Head(ready) = "main"
    /\ mainPc = "awaiting"
    /\ mainPc' = IF \E d \in Streams : pc[d] = "failed" THEN "crashed" ELSE "interrupted"
    /\ pc' = [d \in Streams |-> IF pc[d] = "failed" THEN "failed" ELSE "cancelled"]
    /\ ready' = <<>>
    /\ UNCHANGED <<inputs, running, gatherDone, speak_lang, hear_lang, text,
                   detected_lang, translated, trEngine, tts, failedAt, src_lang,
                   trCall, stages, sigints, cancelReq>>
    /\ UNCHANGED notOrch

\* Ctrl+C while the session is in asyncio.gather.
\*  - KeyboardInterrupt is raised in whatever is executing (the default
\*    SIGINT handler; under asyncio.run's own handler, every SIGINT after the
\*    first): it leaves the event loop, asyncio.run cancels every task and
\*    __main__ prints "Session Ended."
\*  - the first SIGINT under asyncio.run's own handler only cancels the main
\*    task, whose gather passes the request on to the two stream tasks; a
\*    task gets its CancelledError at its next suspension point.
Sigint ==
    /\ mainPc = "awaiting"
    /\ sigints' = sigints + 1
    /\ \/ /\ mainPc' = "interrupted"
          /\ pc' = [d \in Streams |-> IF pc[d] = "failed" THEN "failed" ELSE "cancelled"]
          /\ running' = NoTask
          /\ ready' = <<>>
          /\ UNCHANGED cancelReq
       \/ /\ sigints = 0
          /\ cancelReq' = TRUE
          /\ UNCHANGED <<mainPc, pc, running, ready>>
    /\ UNCHANGED <<inputs, gatherDone, speak_lang, hear_lang, text, detected_lang,
                   translated, trEngine, tts, failedAt, src_lang, trCall, stages>>
    /\ UNCHANGED notOrch

OrchNext ==
    \/ MainDualSetup
    \/ \E d \in Streams : StartStream(d)
    \/ \E d \in Streams : CancelStream(d)
    \/ \E d \in Streams : Record(d)
    \/ \E d \in Streams : Transcribe(d)
    \/ \E d \in Streams : Translate(d)
    \/ \E d \in Streams : Speak(d)
    \/ \E d \in Streams : GatherCallback(d)
    \/ MainRaises
    \/ Sigint

(***************************************************************************)
(* app.py: load_translation_model, translate_text, speak_text, the buttons *)
(***************************************************************************)
Sessions == {"s1", "s2"}

\* "hi (Hindi)", "pa (Punjabi)"
LangChoiceHindi   == <<104,105,32,40,72,105,110,100,105,41>>
LangChoicePunjabi == <<112,97,32,40,80,117,110,106,97,98,105,41>>
LangChoices == {LangChoiceHindi, LangChoicePunjabi}

\* sub in s
Contains(sub, s) ==
    \E i \in 1..(Len(s) - Len(sub) + 1) : SubSeq(s, i, i + Len(sub) - 1) = sub

\* target_lang = "hi" if "hi" in lang_choice else "pa"
target_lang(choice) == IF Contains(<<104,105>>, choice) THEN "hi" ELSE "pa"

\* the (src, dest) each button translates with
ButtonPair(b, choice) ==
    IF b = "client" THEN <<"en", target_lang(choice)>> ELSE <<target_lang(choice), "en">>

Pairs == { <<"en", "hi">>, <<"en", "pa">>, <<"hi", "en">>, <<"pa", "en">> }

\* the n-th capability instantiated for the pair p
Capability(p, n) == [pair |-> p, serial |-> n]

\* the decorator is missing: every call instantiates the model again
load_translation_model_Uncached(c, n, p, loadable) ==
    IF loadable
    THEN [cache |-> [c EXCEPT ![p] = Capability(p, n[p] + 1)],
          loads |-> [n EXCEPT ![p] = n[p] + 1],
          got |-> Capability(p, n[p] + 1)]
    ELSE [cache |-> c, loads |-> n, got |-> Raised]

\* @st.cache_resource load_translation_model(src, dest): the cached value
\* for these arguments if there is one; otherwise the function body runs
\* (under the cache's lock) and its value is stored.  An exception of
\* from_pretrained is not cached and reaches the caller.
load_translation_model(c, n, p, loadable) ==
    IF c[p] # NoValue
    THEN [cache |-> c, loads |-> n, got |-> c[p]]
    ELSE IF loadable
         THEN [cache |-> [c EXCEPT ![p] = Capability(p, n[p] + 1)],
               loads |-> [n EXCEPT ![p] = n[p] + 1],
               got |-> Capability(p, n[p] + 1)]
         ELSE [cache |-> c, loads |-> n, got |-> Raised]

\* result["text"] of Whisper in the app: " ", " ok"
AppRawTranscripts == { <<32>>, <<32,111,107>> }
\* what generate + batch_decode yield in the app: "", "hi", or an exception
AppEngineOutcomes == { Returns(<<>>), Returns(<<104,105>>), Raised }

AppInit ==
    /\ cache = [p \in Pairs |-> NoValue]
    /\ loads = [p \in Pairs |-> 0]
    /\ used = [p \in Pairs |-> {}]
    /\ calls = [p \in Pairs |-> 0]
    /\ runs = 0
    /\ lang_choice = [s \in Sessions |-> LangChoiceHindi]
    /\ appPc = [s \in Sessions |-> "idle"]
    /\ button = [s \in Sessions |-> None]
    /\ appText = [s \in Sessions |-> <<>>]
    /\ appModel = [s \in Sessions |-> NoValue]
    /\ appTranslated = [s \in Sessions |-> NoValue]
    /\ engineCalls = [s \in Sessions |-> 0]
    /\ ttsCalls = [s \in Sessions |-> 0]
    /\ lookups = [s \in Sessions |-> 0]
    /\ chat_history = [s \in Sessions |-> <<>>]

\* the app at rest, for the specifications that do not exercise it
AppIdle == AppInit

\* the script run of session s ends (normally, or on an uncaught exception
\* that Streamlit reports): its locals are gone
EndRun(s) ==
    /\ appPc' = [appPc EXCEPT ![s] = "idle"]
    /\ button' = [button EXCEPT ![s] = None]
    /\ appText' = [appText EXCEPT ![s] = <<>>]
    /\ appModel' = [appModel EXCEPT ![s] = NoValue]
    /\ appTranslated' = [appTranslated EXCEPT ![s] = NoValue]

\* the sidebar selectbox is changed: the script reruns with no button pressed
SelectLanguage(s) ==
    /\ appPc[s] = "idle"
    /\ \E c \in LangChoices \ {lang_choice[s]} :
        lang_choice' = [lang_choice EXCEPT ![s] = c]
    /\ UNCHANGED <<cache, loads, used, calls, runs, appPc, button, appText, appModel,
                   appTranslated, engineCalls, ttsCalls, lookups, chat_history>>
    /\ UNCHANGED notApp

\* a button is pressed: the script reruns and enters that button's block;
\* audio = record_audio(duration)
Press(s) ==
    /\ appPc[s] = "idle"
    /\ runs < MaxRuns
    /\ runs' = runs + 1
    /\ \E b \in {"client", "team"} : button' = [button EXCEPT ![s] = b]
    /\ appPc' = [appPc EXCEPT ![s] = "transcribe"]
    /\ engineCalls' = [engineCalls EXCEPT ![s] = 0]
    /\ ttsCalls' = [ttsCalls EXCEPT ![s] = 0]
    /\ lookups' = [lookups EXCEPT ![s] = 0]
    /\ UNCHANGED <<cache, loads, used, calls, lang_choice, appText, appModel,
                   appTranslated, chat_history>>
    /\ UNCHANGED notApp

\* text = asyncio.run(transcribe_audio(audio))
AppTranscribe(s) ==
    /\ appPc[s] = "transcribe"
    /\ \E raw \in AppRawTranscripts : appText' = [appText EXCEPT ![s] = Strip(raw)]
    /\ appPc' = [appPc EXCEPT ![s] = "load"]
    /\ UNCHANGED <<cache, loads, used, calls, runs, lang_choice, button, appModel,
                   appTranslated, engineCalls, ttsCalls, lookups, chat_history>>
    /\ UNCHANGED notApp

\* translate_text: tokenizer, translator = load_translation_model(src, dest)
AppLoadModel(s) ==
    /\ appPc[s] = "load"
    /\ \E loadable \in BOOLEAN :
        LET pair == ButtonPair(button[s], lang_choice[s])
            r == load_translation_model(cache, loads, pair, loadable)
        IN  /\ cache' = r.cache
            /\ loads' = r.loads
            /\ lookups' = [lookups EXCEPT ![s] = lookups[s] + 1]
            /\ IF r.got = Raised
               THEN /\ EndRun(s)
                    /\ UNCHANGED calls
               ELSE /\ appModel' = [appModel EXCEPT ![s] = r.got]
                    /\ appPc' = [appPc EXCEPT ![s] = "generate"]
                    /\ calls' = [calls EXCEPT ![pair] = calls[pair] + 1]
                    /\ UNCHANGED <<button, appText, appTranslated>>
    /\ UNCHANGED <<used, runs, lang_choice, engineCalls, ttsCalls, chat_history>>
    /\ UNCHANGED notApp

\* translate_text: encoded = tokenizer(...); output = translator.generate(...);
\* return tokenizer.batch_decode(...)[0]
AppGenerate(s) ==
    /\ appPc[s] = "generate"
    /\ used' = [used EXCEPT ![appModel[s].pair] = used[appModel[s].pair] \cup {appModel[s]}]
    /\ engineCalls' = [engineCalls EXCEPT ![s] = engineCalls[s] + 1]
    /\ \E outcome \in AppEngineOutcomes :
        IF outcome = Raised
        THEN EndRun(s)
        ELSE /\ appTranslated' = [appTranslated EXCEPT ![s] = outcome]
             /\ appPc' = [appPc EXCEPT ![s] = "speak"]
             /\ UNCHANGED <<button, appText, appModel>>
    /\ UNCHANGED <<cache, loads, calls, runs, lang_choice, ttsCalls, lookups, chat_history>>
    /\ UNCHANGED notApp

\* chat_history.append((speaker, text, translated)); speak_text(translated, lang):
\* nothing on blank text, otherwise gTTS and play, whose exceptions are not caught
AppSpeak(s) ==
    /\ appPc[s] = "speak"
    /\ chat_history' = [chat_history EXCEPT ![s] =
            Append(chat_history[s], <<button[s], appText[s], appTranslated[s].str>>)]
    /\ ttsCalls' = [ttsCalls EXCEPT ![s] =
            IF Strip(appTranslated[s].str) = <<>> THEN ttsCalls[s] ELSE ttsCalls[s] + 1]
    /\ EndRun(s)
    /\ UNCHANGED <<cache, loads, used, calls, runs, lang_choice, engineCalls, lookups>>
    /\ UNCHANGED notApp

AppNext ==
    \/ \E s \in Sessions : SelectLanguage(s)
    \/ \E s \in Sessions : Press(s)
    \/ \E s \in Sessions : AppTranscribe(s)
    \/ \E s \in Sessions : AppLoadModel(s)
    \/ \E s \in Sessions : AppGenerate(s)
    \/ \E s \in Sessions : AppSpeak(s)

(***************************************************************************)
(* main.py: play_audio, translate_text_smart, bidirectional_talk           *)
(***************************************************************************)
\* recognize_google: the text, sr.UnknownValueError, or another exception
UnknownValueError == [error |-> "UnknownValueError"]
RequestError == [error |-> "RequestError"]

\* what the Google recognizer can return
MainTexts ==
    { <<107,105,32,116,117,115,105,32,116,104,101,101,107,32,104,111>>,  \* "ki tusi theek ho"
      <<116,117,115,105>>,           \* "tusi"
      <<107,121,97,32,104,97,105>>,  \* "kya hai"
      <<111,107>>,                   \* "ok"
      <<75,73>>,                     \* "KI"
      <<2325>>,                      \* U+0915, Devanagari
      <<2596>> }                     \* U+0A24, Gurmukhi

SttOutcomes == {Returns(t) : t \in MainTexts} \cup {UnknownValueError, RequestError}

\* the recognizer is asked again after any exception
retry_recognition_AnyError(first) == first \in {UnknownValueError, RequestError}

\* try: recognize_google(en-IN)  except sr.UnknownValueError: recognize_google(hi-IN)
retry_recognition(first) == first = UnknownValueError

\* the destination is Hindi for Hindi and Punjabi speech, English otherwise
dest_lang_Swapped(detected) == IF detected \in {"hi", "pa"} THEN "hi" ELSE "en"

\* if detected_lang in ["hi", "pa"]: dest_lang = "en"  else: dest_lang = "hi"
dest_lang(detected) == IF detected \in {"hi", "pa"} THEN "en" ELSE "hi"

\* play_audio(text, lang_code): gTTS is constructed and asked to save
\* whatever the text is; gTTS rejects a text with nothing to say, and every
\* exception is caught and printed
play_audio(s, lang_code, outcome) ==
    [text |-> s, lang |-> lang_code,
     outcome |-> IF Strip(s) = <<>> THEN "error caught" ELSE outcome]

MainInit ==
    /\ mPc = "listen"
    /\ mText = <<>>
    /\ mDetected = None
    /\ mDest = None
    /\ mTranslated = NoValue
    /\ mTts = NoValue
    /\ mSttFirst = NoValue
    /\ mSttCalls = 0
    /\ mTrCalls = 0
    /\ mTtsCalls = 0

\* main.py at rest, for the specifications that do not exercise it
MainIdle == MainInit

\* an exception reaches "except Exception" of bidirectional_talk: it is
\* printed, bidirectional_talk returns and "while True" calls it again
MainCaught == mPc' = "listen"

\* with sr.Microphone() as source: adjust_for_ambient_noise; listen.  These
\* are outside the try: an exception here ends the process.
Listen ==
    /\ mPc = "listen"
    /\ mText' = <<>>
    /\ mDetected' = None
    /\ mDest' = None
    /\ mTranslated' = NoValue
    /\ mTts' = NoValue
    /\ mSttFirst' = NoValue
    /\ mSttCalls' = 0
    /\ mTrCalls' = 0
    /\ mTtsCalls' = 0
    /\ \/ mPc' = "recognize_en"
       \/ mPc' = "crashed"
    /\ UNCHANGED notMain

\* text = recognizer.recognize_google(audio, language="en-IN")
RecognizeEn ==
    /\ mPc = "recognize_en"
    /\ mSttCalls' = mSttCalls + 1
    /\ \E first \in SttOutcomes :
        /\ mSttFirst' = first
        /\ IF first \in {UnknownValueError, RequestError}
           THEN /\ IF retry_recognition(first) THEN mPc' = "recognize_hi" ELSE MainCaught
                /\ UNCHANGED mText
           ELSE /\ mText' = first.str
                /\ mPc' = "smart"
    /\ UNCHANGED <<mDetected, mDest, mTranslated, mTts, mTrCalls, mTtsCalls>>
    /\ UNCHANGED notMain

\* except sr.UnknownValueError: text = recognize_google(audio, language="hi-IN")
RecognizeHi ==
    /\ mPc = "recognize_hi"
    /\ mSttCalls' = mSttCalls + 1
    /\ \E second \in SttOutcomes :
        IF second \in {UnknownValueError, RequestError}
        THEN MainCaught /\ UNCHANGED mText
        ELSE mText' = second.str /\ mPc' = "smart"
    /\ UNCHANGED <<mDetected, mDest, mTranslated, mTts, mSttFirst, mTrCalls, mTtsCalls>>
    /\ UNCHANGED notMain

\* translate_text_smart up to translator.translate(text, dest=dest_lang)
TranslateSmart ==
    /\ mPc = "smart"
    /\ mDetected' = detect_indian_language(mText)
    /\ mDest' = dest_lang(detect_indian_language(mText))
    /\ mTrCalls' = mTrCalls + 1
    /\ \E outcome \in EngineOutcomes :
        /\ mTranslated' = outcome
        /\ IF outcome = Raised THEN MainCaught ELSE mPc' = "play"
    /\ UNCHANGED <<mText, mTts, mSttFirst, mSttCalls, mTtsCalls>>
    /\ UNCHANGED notMain

\* play_audio(translated.text, dest_lang)
PlayAudio ==
    /\ mPc = "play"
    /\ \E outcome \in TtsOutcomes :
        mTts' = play_audio(mTranslated.str, mDest, outcome)
    /\ mTtsCalls' = mTtsCalls + 1
    /\ mPc' = "listen"
    /\ UNCHANGED <<mText, mDetected, mDest, mTranslated, mSttFirst, mSttCalls, mTrCalls>>
    /\ UNCHANGED notMain

MainNext ==
    \/ Listen
    \/ RecognizeEn
    \/ RecognizeHi
    \/ TranslateSmart
    \/ PlayAudio

(***************************************************************************)
(* Inputs of the identification specification                              *)
(***************************************************************************)
Vocabulary ==
    { <<107,105>>,           \* "ki"    in both word lists
      <<116,117,115,105>>,   \* "tusi"  Punjabi list only
      <<104,97,105>>,        \* "hai"   Hindi list only
      <<75,65>>,             \* "KA"    Hindi list only, upper case
      <<111,107>>,           \* "ok"    in neither list
      <<32>>,                \* " "
      <<9>>,                 \* tab
      <<2325>>,              \* U+0915 KA   Devanagari, in HindiChars
      <<2384>>,              \* U+0950 OM   Devanagari, not in HindiChars
      <<2596>>,              \* U+0A24 TA   Gurmukhi, in PunjabiChars
      <<2583>> }             \* U+0A17 GA   Gurmukhi, not in PunjabiChars

RECURSIVE TextsUpTo(_)
TextsUpTo(n) ==
    IF n = 0 THEN { <<>> }
    ELSE LET shorter == TextsUpTo(n - 1)
         IN  shorter \cup { t \o p : t \in shorter, p \in Vocabulary }

Texts == TextsUpTo(MaxPieces)

Hints == {None, "", "en", "hi", "ur"}          \* whisper_lang
ClassifierOutcomes == {"en", "pa", "fr", Raises}   \* lang_model.predict


(***************************************************************************)
(* Identification specification: every input, both identifiers applied      *)
(***************************************************************************)
\* the identifiers at rest, for the specifications that do not exercise them
IdentIdle ==
    /\ idText = <<>>
    /\ idHint = None
    /\ idClassifier = "en"
    /\ idPc = "done"
    /\ idVoice = NoValue
    /\ idMain = NoValue
    /\ idPredictCalls = 0

IdentInit ==
    /\ idText \in Texts
    /\ idHint \in Hints
    /\ idClassifier \in ClassifierOutcomes
    /\ idPc = "input"
    /\ idVoice = NoValue
    /\ idMain = NoValue
    /\ idPredictCalls = 0

Identify ==
    /\ idPc = "input"
    /\ idVoice' = StrResult(detect_language(idText, idHint, idClassifier))
    /\ idMain' = StrResult(detect_indian_language(idText))
    /\ idPredictCalls' = idPredictCalls + detect_language_predicts(idText)
    /\ idPc' = "done"
    /\ UNCHANGED <<idText, idHint, idClassifier>>
    /\ UNCHANGED notIdent

IdentNext == Identify

InitIdent == IdentInit /\ OrchIdle /\ AppIdle /\ MainIdle

SpecIdent == InitIdent /\ [][IdentNext]_vars

(***************************************************************************)
(* Specifications of the voice.py session                                  *)
(***************************************************************************)
Init == OrchInit /\ IdentIdle /\ AppIdle /\ MainIdle

Next == OrchNext

Spec == Init /\ [][Next]_vars

\* The event loop always runs the next ready callback, and a running task
\* always goes on to its next statement.
FairSpec == Init /\ [][Next]_vars /\ WF_vars(Next)

(***************************************************************************)
(* Specification of the Streamlit app                                      *)
(***************************************************************************)
InitApp == AppInit /\ IdentIdle /\ OrchIdle /\ MainIdle

SpecApp == InitApp /\ [][AppNext]_vars

(***************************************************************************)
(* Specification of the main.py loop                                       *)
(***************************************************************************)
InitMain == MainInit /\ IdentIdle /\ OrchIdle /\ AppIdle

SpecMain == InitMain /\ [][MainNext]_vars

(***************************************************************************)
(* Properties of language identification (checked under SpecIdent)         *)
(***************************************************************************)
Blank(s) == \A i \in 1..Len(s) : IsSpace(s[i])

Romanized(s) == \A i \in 1..Len(s) :
    ~(s[i] >= DevanagariLo /\ s[i] <= DevanagariHi) /\ ~(s[i] >= GurmukhiLo /\ s[i] <= GurmukhiHi)

\* s has a blank-delimited word that, lower-cased, is in the list W
ContainsWord(s, W) ==
    \E i \in 1..Len(s) : \E j \in i..Len(s) :
        /\ Lower(SubSeq(s, i, j)) \in W
        /\ (i = 1 \/ IsSpace(s[i - 1]))
        /\ (j = Len(s) \/ IsSpace(s[j + 1]))

HasDevanagari(s) == \E i \in 1..Len(s) : s[i] \in DevanagariLo..DevanagariHi
HasGurmukhi(s)   == \E i \in 1..Len(s) : s[i] \in GurmukhiLo..GurmukhiHi

\* the result carries the confidence c
HasConfidence(r, c) == "confidence" \in DOMAIN r /\ r.confidence = c

\* C6: a text with a character of the Devanagari range is identified as Hindi,
\* a text with a character of the Gurmukhi range as Punjabi, by both
\* identifiers, whatever the classifier and the ASR hint say (texts mixing
\* the two scripts left aside).
C6_ScriptRangeDecides ==
    idPc = "done" =>
        /\ (HasDevanagari(idText) /\ ~HasGurmukhi(idText))
              => (idVoice.lang = "hi" /\ idMain.lang = "hi")
        /\ (HasGurmukhi(idText) /\ ~HasDevanagari(idText))
              => (idVoice.lang = "pa" /\ idMain.lang = "pa")

\* C7: a romanized text holding a word of the Punjabi list and a word of the
\* Hindi list is identified as Punjabi by detect_indian_language.
C7_PunjabiListFirst ==
    (/\ idPc = "done"
     /\ Romanized(idText)
     /\ ContainsWord(idText, punjabi_words)
     /\ ContainsWord(idText, hindi_words))
        => idMain.lang = "pa"

\* a Punjabi-only word and a Hindi-only word in one romanized text, identified
C7_Witness ==
    /\ idPc = "done"
    /\ Romanized(idText)
    /\ ContainsWord(idText, punjabi_words \ hindi_words)
    /\ ContainsWord(idText, hindi_words \ punjabi_words)
    /\ idMain.lang = "pa"

C10_OnlySupportedLanguages ==
    idPc = "done" => (idVoice.lang \in SupportedLangs /\ idMain.lang \in SupportedLangs)

\* no character of the two hand-written lists of detect_language
NoListedChar(s) == \A i \in 1..Len(s) : s[i] \notin HindiChars \cup PunjabiChars

\* C16: for a text with no script-range character, a word of the Punjabi
\* list makes both identifiers answer Punjabi and a word of the Hindi list
\* (with none of the Punjabi list) makes them answer Hindi, whatever the
\* classifier and the ASR hint are.
C16_LexicalOutranksClassifierAndHint ==
    (idPc = "done" /\ Romanized(idText)) =>
        /\ ContainsWord(idText, punjabi_words)
              => (idVoice.lang = "pa" /\ idMain.lang = "pa")
        /\ (ContainsWord(idText, hindi_words) /\ ~ContainsWord(idText, punjabi_words))
              => (idVoice.lang = "hi" /\ idMain.lang = "hi")

\* C20: voice.py detect_language on a non-blank text with no listed
\* character returns the ASR hint when a non-empty hint is given, and
\* otherwise the classifier's label, "en" standing in when the classifier
\* raises.
C20_HintThenClassifier ==
    (idPc = "done" /\ ~Blank(idText) /\ NoListedChar(idText)) =>
        idVoice.lang = (IF idHint # None /\ idHint # "" THEN idHint
                        ELSE IF idClassifier = Raises THEN "en"
                        ELSE idClassifier)

\* "ok" with hint "ur" and classifier label "fr": the hint is returned
C20_Witness ==
    /\ idPc = "done"
    /\ idText = <<111,107>>
    /\ idHint = "ur"
    /\ idClassifier = "fr"
    /\ idVoice = StrResult("ur")

(***************************************************************************)
(* Properties of the voice.py session (checked under Spec and FairSpec)    *)
(***************************************************************************)
Terminated(d) == pc[d] \in {"failed", "cancelled"}
Other(d) == IF d = "A" THEN "B" ELSE "A"

\* stream d is at record_chunk, starting a capture cycle
Capturing(d) == running = d /\ pc[d] = "record"

\* C1: as long as no external call raises (and nobody interrupts the session),
\* each of the two streams starts a new capture cycle again and again.
C1_BothStreamsKeepCapturing ==
    [](sigints = 0 /\ \A d \in Streams : failedAt[d] = None)
        => ([]<>Capturing("A") /\ []<>Capturing("B"))

\* C2: a stream whose translation engine raised is not terminated, and that
\* failure does not terminate the other stream.
C2_TranslationFailureKeepsLoopsAlive ==
    \A d \in Streams :
        (trEngine[d] = Raised /\ sigints = 0) =>
            /\ ~Terminated(d)
            /\ (failedAt[Other(d)] = None => ~Terminated(Other(d)))

\* C3: when the engine raises on a non-blank text, translate_text returns the
\* source text.
C3_FailureReturnsSourceText ==
    \A d \in Streams :
        (trEngine[d] = Raised /\ ~Blank(text[d])) => translated[d] = Returns(text[d])

\* C12: an error of gTTS or of the playback inside speak_text never leaves
\* speak_text: the stream is not failed by it and is back at record_chunk
\* for its next iteration.
C12_SpeakErrorIsNotFatal ==
    \A d \in Streams :
        /\ failedAt[d] # "speak"
        /\ (/\ tts[d] # NoValue /\ tts[d] # Raised
            /\ tts[d].outcome = "error caught"
            /\ mainPc = "awaiting") => Capturing(d)

\* a stream whose gTTS call failed is starting its next capture cycle
C12_Witness ==
    \E d \in Streams :
        /\ tts[d] = [text |-> <<104,105>>, lang |-> "en", outcome |-> "error caught"]
        /\ Capturing(d)
        /\ failedAt[d] = None

\* the stages of the state machine of one direction, after Idle
PipelineStages ==
    <<"capture", "segment", "transcribe", "identify", "translate", "synthesize">>

IsPrefix(a, b) == Len(a) <= Len(b) /\ SubSeq(b, 1, Len(a)) = a

\* C15: the stages a stream has entered in its current iteration are, in
\* order and with none left out, the first stages of capture, segment,
\* transcribe, identify, translate, synthesize.
C15_StagesInOrder ==
    \A d \in Streams : IsPrefix(stages[d], PipelineStages)

\* C18: once an interrupt signal has arrived no stream takes a further step
\* of its loop: each is terminated or stays where it is.
C18_InterruptStopsBothStreams ==
    [][sigints > 0 => \A d \in Streams : pc'[d] = pc[d] \/ Terminated(d)']_vars

\* C19 as stated: what stream A says is spoken in b_hear and what stream B
\* says is spoken in a_hear.
C19_SpokenInHearLanguage ==
    \A d \in Streams :
        tts[d] # NoValue => tts[d].lang = (IF d = "A" THEN b_hear ELSE a_hear)

\* C19 amended: from the setup on, stream A runs with (a_speak, b_hear) and
\* stream B with (b_speak, a_hear); every translate_text call gets the
\* stream's pair as (src, dest), and gTTS gets the translated text with the
\* stream's hear language when it is en, hi or pa, and "en" otherwise.
C19_CrossWiring ==
    mainPc # "setup" =>
        \A d \in Streams :
            /\ speak_lang[d] = (IF d = "A" THEN a_speak ELSE b_speak)
            /\ hear_lang[d] = (IF d = "A" THEN b_hear ELSE a_hear)
            /\ trCall[d] # NoValue =>
                  trCall[d] = [src |-> speak_lang[d], dest |-> hear_lang[d]]
            /\ tts[d] # NoValue =>
                  /\ tts[d].text = translated[d].str
                  /\ tts[d].lang = speak_lang_arg(hear_lang[d])

\* A hears "pa" (default) and B hears "hi": what A said was translated with
\* (a_speak, b_hear) and spoken in "hi"
C19_Witness ==
    /\ a_hear = "pa" /\ b_hear = "hi" /\ a_speak = "en"
    /\ trCall["A"] = [src |-> "en", dest |-> "hi"]
    /\ tts["A"] # NoValue
    /\ tts["A"].lang = "hi"

(***************************************************************************)
(* Properties of the Streamlit app (checked under SpecApp)                 *)
(***************************************************************************)
\* session s is in a handler run that has its recognized text
Recognized(s) == appPc[s] \in {"load", "generate", "speak"}

\* C4: in a run whose recognized text is empty, no translation is run and
\* nothing is synthesized.
C4_SilenceSkipsTranslationAndSynthesis ==
    \A s \in Sessions :
        (Recognized(s) /\ appText[s] = <<>>) => (engineCalls[s] = 0 /\ ttsCalls[s] = 0)

\* C5: for each (src, dest) the model is instantiated at most once, and once
\* translate_text has obtained it, exactly once: every call for the pair has
\* run on that one capability and the cache still holds it.
C5_OneLoadPerPair ==
    \A p \in Pairs :
        /\ loads[p] <= 1
        /\ calls[p] > 0 => (loads[p] = 1 /\ cache[p] = Capability(p, 1))
        /\ used[p] \subseteq {cache[p]}
        /\ \A s \in Sessions :
              (appModel[s] # NoValue /\ appModel[s].pair = p) => appModel[s] = cache[p]

\* the same pair served twice, the second time from the cache, and used
C5_Witness ==
    \E p \in Pairs : calls[p] >= 2 /\ loads[p] = 1 /\ used[p] = {Capability(p, 1)}

\* C9: translate_text on a blank text returns "" and neither consults the
\* model cache nor runs the engine.
C9_BlankTextShortCircuits ==
    \A s \in Sessions :
        (Recognized(s) /\ Blank(appText[s])) =>
            /\ lookups[s] = 0
            /\ engineCalls[s] = 0
            /\ appTranslated[s] \in {NoValue, Returns(<<>>)}

\* C13: a script run that asked for the translation model of its pair goes
\* on to the engine and produces a result, whether or not a checkpoint for
\* that pair can be loaded.
C13_UnloadablePairStillTranslates ==
    \A s \in Sessions :
        (appPc[s] = "idle" /\ lookups[s] > 0) => engineCalls[s] > 0

(***************************************************************************)
(* Properties of the main.py loop (checked under SpecMain)                 *)
(***************************************************************************)
\* C11: an utterance identified as Punjabi is sent to the translator with
\* destination English, and once the translator has returned, gTTS is called
\* exactly with the translated text and the language code "en".
C11_PunjabiSpokenInEnglish ==
    mDetected = "pa" =>
        /\ mTrCalls = 1 /\ mDest = "en"
        /\ mTts # NoValue =>
              (mTranslated # Raised /\ mTts.text = mTranslated.str /\ mTts.lang = "en")
        /\ (mPc = "listen" /\ mTranslated \notin {NoValue, Raised}) => mTts # NoValue

\* "ki tusi theek ho" identified as Punjabi, translated, and spoken in English
C11_Witness ==
    /\ mText = <<107,105,32,116,117,115,105,32,116,104,101,101,107,32,104,111>>
    /\ mDetected = "pa"
    /\ mTranslated = Returns(<<104,105>>)
    /\ mTts = [text |-> <<104,105>>, lang |-> "en", outcome |-> "played"]

\* C14: on a blank text the TTS engine is not invoked.
C14_BlankTextNotSpoken ==
    (mTranslated \notin {NoValue, Raised} /\ Blank(mTranslated.str)) => mTtsCalls = 0

====
